---------------------------- MODULE Spec2Model ----------------------------
(***************************************************************************)
(* Model of the axis-and-allies purchase tracker (src/src/main.rs).        *)
(*                                                                         *)
(* One run of the program is one command: main() dispatches the command,   *)
(* the handler loads state.ron, transforms the GameState and returns       *)
(* Option<GameState>; main() saves a returned state.  The model keeps the  *)
(* persisted file, the build profile (integer overflow panics with         *)
(* overflow checks on, wraps with them off) and a record of the last run.  *)
(***************************************************************************)
EXTENDS Integers, Sequences, FiniteSets, TLC

VARIABLES file, build, last, nops, procs

vars == <<file, build, last, nops, procs>>

---------------------------------------------------------------------------
(* Bounds of the model *)

\* IPC = i32 is scaled down to IntBits bits, two's complement.
IntBits == 8

\* Number of commands run in one behaviour.
MaxOps == 3

Modulus == 2 ^ IntBits
MaxInt == 2 ^ (IntBits - 1) - 1
MinInt == -(2 ^ (IntBits - 1))

\* The unit types the commands are run with (two of the thirteen variants).
Troops == {"Infantery", "Battleship"}

\* Arguments the commands are run with.
IPCArgs == {MinInt, -1, 0, 1, 20, MaxInt}
Ammounts == {MinInt, -1, 0, 1, 2, MaxInt}

---------------------------------------------------------------------------
(* Shapes of the values *)

\* An i32 at the model's width.
I32Value == MinInt..MaxInt

\* Option<i32>
OptionAmmount == [given : BOOLEAN, val : I32Value]

\* The result of an arithmetic operation: val, the result wrapped to the
\* width; ovf, whether the exact result left the range.
ArithResult == [val : I32Value, ovf : BOOLEAN]

\* enum Commands, flattened; "None" is the command of no run.
CommandNames == {"Setup", "Status", "Purchase", "Remove", "Commit"}
CommandLine == [ammount : OptionAmmount, ipc : I32Value,
                name : CommandNames \cup {"None"}, troop : Troops]

\* HashMap<Troops, i32>
Purchases == UNION {[keys -> I32Value] : keys \in SUBSET Troops}

\* struct GameState
GameState == [ipc : I32Value, purchases : Purchases]

\* state.ron: present, when it exists and holds a GameState that parses;
\* otherwise missing, empty or cut short, which load cannot tell apart.
PersistedFile == [present : BOOLEAN, state : GameState]

\* A line printed to the user, or the save of main: <<text, troop, a, b>>.
Messages == {"current_state", "entry", "total_cost", "remaining", "added",
             "removing", "removing_all", "commiting", "ipc_remaining",
             "new_ipc_total", "not_enough"}
Events == (Messages \cup {"save"}) \X (Troops \cup {""}) \X I32Value \X I32Value

\* What a handler hands back to main: Option<GameState>, or a panic; ovf,
\* whether an arithmetic operation of the handler left the i32 range; out,
\* the lines it printed.
HandlerResult == [ovf : BOOLEAN, state : GameState, some : BOOLEAN,
                  panic : BOOLEAN, out : Seq(Events)]

\* How the save of a run goes: "ok"; "open_failed", the file cannot be
\* opened; "write_failed", the file is opened, which truncates it, and the
\* write fails.
SaveOutcomes == {"ok", "open_failed", "write_failed"}

\* The last run: its command, whether its arithmetic overflowed, whether it
\* panicked, the file it found, whether it called save, how the save went,
\* and its lines and save in the order they happened.
LastRun == [cmd : CommandLine, overflowed : BOOLEAN, panicked : BOOLEAN,
            pre : PersistedFile, saved : BOOLEAN, io : SaveOutcomes,
            trace : Seq(Events)]

\* A process running one command step by step: the file as load read it
\* (seen) and what its handler returned (result).
ProcSteps == {"idle", "load", "transform", "open", "write", "done"}
ProcState == [cmd : CommandLine, pc : ProcSteps, seen : PersistedFile,
              result : HandlerResult]

\* Records are written with their fields in the order of this section
\* throughout.

---------------------------------------------------------------------------
(* i32 arithmetic: the exact result, wrapped to the width, and whether it  *)
(* left the range (a panic under overflow checks, silent otherwise).       *)

InRange(x) == MinInt <= x /\ x <= MaxInt

Wrap(x) == ((x - MinInt) % Modulus) + MinInt

I32(x) == [val |-> Wrap(x), ovf |-> ~InRange(x)]

Add(a, b) == I32(a + b)

Sub(a, b) == I32(a - b)

Mul(a, b) == I32(a * b)

---------------------------------------------------------------------------
(* Catalog *)

get_cost(troop) ==
    CASE troop = "Infantery" -> 3
      [] troop = "Tank" -> 6
      [] troop = "Artillery" -> 4
      [] troop = "AAA" -> 5
      [] troop = "IC" -> 15
      [] troop = "Fighter" -> 10
      [] troop = "Bomber" -> 12
      [] troop = "Battleship" -> 20
      [] troop = "AircraftCarrier" -> 14
      [] troop = "Cruiser" -> 12
      [] troop = "Destroyer" -> 8
      [] troop = "Submarine" -> 6
      [] troop = "Transport" -> 7

---------------------------------------------------------------------------
(* HashMap<Troops, i32> as a function whose domain is the set of keys *)

EmptyMap == [t \in {} |-> 0]

MapInsert(m, k, v) == [t \in (DOMAIN m) \cup {k} |-> IF t = k THEN v ELSE m[t]]

MapRemove(m, k) == [t \in (DOMAIN m) \ {k} |-> m[t]]

\* purchases.get(&troop).unwrap_or(&0)
MapGetOr0(m, k) == IF k \in DOMAIN m THEN m[k] ELSE 0

\* The orders in which a HashMap with the given keys may iterate them.
KeyOrders(keys) == {s \in [1..Cardinality(keys) -> keys] :
                      \A i, j \in 1..Cardinality(keys) : i # j => s[i] # s[j]}

---------------------------------------------------------------------------
(* GameState *)

GameState_new(ipc) == [ipc |-> ipc, purchases |-> EmptyMap]

\* fold(0, |acc, (troop, ammount)| acc + troop.get_cost() * ammount), the
\* entries visited in the given order, a sequence of the keys of purchases;
\* ovf: some step left the range.
RECURSIVE FoldCost(_, _, _, _)
FoldCost(purchases, order, i, acc) ==
    IF i > Len(order) THEN acc
    ELSE LET p == Mul(get_cost(order[i]), purchases[order[i]])
             s == Add(acc.val, p.val)
         IN FoldCost(purchases, order, i + 1,
                     [val |-> s.val, ovf |-> acc.ovf \/ p.ovf \/ s.ovf])

get_total_cost(state, order) ==
    FoldCost(state.purchases, order, 1, [val |-> 0, ovf |-> FALSE])

---------------------------------------------------------------------------
(* Option<GameState> returned by a handler, and a panic that ends the run *)

NoState == GameState_new(0)

None == [ovf |-> FALSE, state |-> NoState, some |-> FALSE, panic |-> FALSE,
         out |-> <<>>]

Some(state) ==
    [ovf |-> FALSE, state |-> state, some |-> TRUE, panic |-> FALSE,
     out |-> <<>>]

Panic == [ovf |-> TRUE, state |-> NoState, some |-> FALSE, panic |-> TRUE,
          out |-> <<>>]

\* Integer overflow panics when the build has overflow checks (the dev
\* profile) and wraps when it has none (the release profile): the handler
\* then goes on to its result r with the wrapped values.
Arith(b, ovf, r) ==
    IF ~ovf THEN r
    ELSE IF b = "debug" THEN Panic
    ELSE [r EXCEPT !.ovf = TRUE]

\* println!: a line <<text, troop, a, b>>.
Msg(text, troop, a, b) == <<text, troop, a, b>>

\* The handler prints msgs and goes on to r (its result, or a panic).
Printing(msgs, r) == [r EXCEPT !.out = msgs \o @]

---------------------------------------------------------------------------
(* Persistence *)

NoFile == [present |-> FALSE, state |-> NoState]

\* Mutant of load: a missing file loads as a default state.
load_or_default(f) == Some(f.state)

load(f) == IF f.present THEN Some(f.state) ELSE None

save(f, state) == [present |-> TRUE, state |-> state]

---------------------------------------------------------------------------
(* Handlers *)

\* impl Display for GameState, after its heading: one line per entry,
\* visited in the given order, cost += troop.get_cost() * ammount before the
\* line is written; then the total cost, then the remaining IPC.
RECURSIVE Display(_, _, _, _, _)
Display(state, b, order, i, cost) ==
    IF i > Len(order)
    THEN LET rem == Sub(state.ipc, cost)
         IN Printing(<<Msg("total_cost", "", cost, 0)>>,
                Arith(b, rem.ovf,
                    Printing(<<Msg("remaining", "", rem.val, 0)>>, None)))
    ELSE LET troop == order[i]
             p == Mul(get_cost(troop), state.purchases[troop])
             sum == Add(cost, p.val)
         IN Arith(b, p.ovf \/ sum.ovf,
                  Printing(<<Msg("entry", troop, state.purchases[troop],
                                 get_cost(troop))>>,
                           Display(state, b, order, i + 1, sum.val)))

show_status(f, b, order) ==
    LET loaded == load(f) IN
    IF ~loaded.some THEN None
    ELSE Printing(<<Msg("current_state", "", 0, 0)>>,
                  Display(loaded.state, b, order, 1, 0))

\* Mutant of add_purchase: the cost of the addition is taken off the balance.
add_purchase_charge(f, b, order, troop, ammount) ==
    LET loaded == load(f) IN
    IF ~loaded.some THEN None
    ELSE LET state == loaded.state
             q == Add(MapGetOr0(state.purchases, troop), ammount)
             c == Mul(get_cost(troop), ammount)
             paid == Sub(state.ipc, c.val)
             state1 == [ipc |-> paid.val,
                        purchases |-> MapInsert(state.purchases, troop, q.val)]
         IN Arith(b, q.ovf \/ c.ovf \/ paid.ovf,
                  Printing(<<Msg("added", troop, ammount, c.val),
                             Msg("remaining", "", paid.val, 0)>>,
                           Some(state1)))

add_purchase(f, b, order, troop, ammount) ==
    LET loaded == load(f) IN
    IF ~loaded.some THEN None
    ELSE LET state == loaded.state
             q == Add(MapGetOr0(state.purchases, troop), ammount)
             state1 == [state EXCEPT !.purchases = MapInsert(@, troop, q.val)]
             c == Mul(get_cost(troop), ammount)
             total == get_total_cost(state1, order)
             rem == Sub(state1.ipc, total.val)
         IN Arith(b, q.ovf \/ c.ovf,
                  Printing(<<Msg("added", troop, ammount, c.val)>>,
                      Arith(b, total.ovf \/ rem.ovf,
                          Printing(<<Msg("remaining", "", rem.val, 0)>>,
                                   Some(state1)))))

\* Mutant of remove_purchase: the entry is dropped only below zero.
remove_purchase_lt(f, b, troop, ammount) ==
    LET loaded == load(f) IN
    IF ~loaded.some THEN None
    ELSE LET state == loaded.state
             q == IF ammount.given
                  THEN Sub(MapGetOr0(state.purchases, troop), ammount.val)
                  ELSE [val |-> 0, ovf |-> FALSE]
             state1 == [state EXCEPT !.purchases = MapInsert(@, troop, q.val)]
             state2 == IF state1.purchases[troop] < 0
                       THEN [state1 EXCEPT !.purchases = MapRemove(@, troop)]
                       ELSE state1
             line == IF ammount.given
                     THEN Msg("removing", troop, ammount.val, 0)
                     ELSE Msg("removing_all", troop, 0, 0)
         IN Arith(b, q.ovf, Printing(<<line>>, Some(state2)))

\* ammount is an Option<i32>: [given |-> BOOLEAN, val |-> i32]
remove_purchase(f, b, troop, ammount) ==
    LET loaded == load(f) IN
    IF ~loaded.some THEN None
    ELSE LET state == loaded.state
             q == IF ammount.given
                  THEN Sub(MapGetOr0(state.purchases, troop), ammount.val)
                  ELSE [val |-> 0, ovf |-> FALSE]
             state1 == [state EXCEPT !.purchases = MapInsert(@, troop, q.val)]
             state2 == IF state1.purchases[troop] <= 0
                       THEN [state1 EXCEPT !.purchases = MapRemove(@, troop)]
                       ELSE state1
             line == IF ammount.given
                     THEN Msg("removing", troop, ammount.val, 0)
                     ELSE Msg("removing_all", troop, 0, 0)
         IN Arith(b, q.ovf, Printing(<<line>>, Some(state2)))

commit_purchase(f, b, order, new_ipc) ==
    LET loaded == load(f) IN
    IF ~loaded.some THEN None
    ELSE LET state == loaded.state
             total == get_total_cost(state, order)
             remaining_ipc == Sub(state.ipc, total.val)
             ipc == Add(remaining_ipc.val, new_ipc)
         IN Arith(b, total.ovf \/ remaining_ipc.ovf,
                  IF remaining_ipc.val >= 0
                  THEN Printing(<<Msg("commiting", "", 0, 0),
                                  Msg("ipc_remaining", "", remaining_ipc.val, 0)>>,
                           Arith(b, ipc.ovf,
                               Printing(<<Msg("new_ipc_total", "", ipc.val, 0)>>,
                                   Some([ipc |-> ipc.val,
                                         purchases |-> EmptyMap]))))
                  ELSE Printing(<<Msg("not_enough", "", 0, 0)>>, None))

---------------------------------------------------------------------------
(* main: one run of the program *)

NoAmmount == [given |-> FALSE, val |-> 0]

GivenAmmount(a) == [given |-> TRUE, val |-> a]

Command(name, troop, ammount, ipc) ==
    [ammount |-> ammount, ipc |-> ipc, name |-> name, troop |-> troop]

\* Mutant of main_setup: the new balance is merged into the loaded state.
main_setup_merge(f, ipc) == Some([ipc |-> ipc, purchases |-> f.state.purchases])

\* Commands::Setup { initial_icp } => Some(GameState::new(initial_icp))
main_setup(f, ipc) == Some(GameState_new(ipc))

\* Mutant of main_status: the loaded state is handed back to be saved.
main_status_resave(f, b, order) ==
    LET shown == show_status(f, b, order)
    IN IF shown.panic THEN shown
       ELSE [load(f) EXCEPT !.ovf = shown.ovf, !.out = shown.out]

\* Commands::Status => { show_status(); None }
main_status(f, b, order) ==
    LET shown == show_status(f, b, order)
    IN IF shown.panic THEN shown
       ELSE [None EXCEPT !.ovf = shown.ovf, !.out = shown.out]

\* let state = match cli.command { ... }
Dispatch(f, b, order, cmd) ==
    CASE cmd.name = "Setup" -> main_setup(f, cmd.ipc)
      [] cmd.name = "Status" -> main_status(f, b, order)
      [] cmd.name = "Purchase" ->
            add_purchase(f, b, order, cmd.troop, cmd.ammount.val)
      [] cmd.name = "Remove" -> remove_purchase(f, b, cmd.troop, cmd.ammount)
      [] cmd.name = "Commit" -> commit_purchase(f, b, order, cmd.ipc)

\* save as it can go: open(FILE) with create, write and truncate, then
\* to_writer_pretty; an error of either is logged and nothing else is done.
\* A file emptied by the open and not written is one load cannot read.
save_outcome(f, state, io) ==
    CASE io = "ok" -> save(f, state)
      [] io = "open_failed" -> f
      [] io = "write_failed" -> NoFile

SaveEvent == <<"save", "", 0, 0>>

\* Mutant of RunTrace: the state is saved before the handler prints.
RunTrace_save_first(state) ==
    (IF state.some THEN <<SaveEvent>> ELSE <<>>) \o state.out

\* What a run does, in order: the handler called by the match prints its
\* lines, then if let Some(state) = state { save(state); }
RunTrace(state) ==
    state.out \o (IF state.some THEN <<SaveEvent>> ELSE <<>>)

\* One run of main whose save, if any, goes as io says.
Run(cmd, order, io) ==
    LET state == Dispatch(file, build, order, cmd) IN
    /\ nops < MaxOps
    /\ nops' = nops + 1
    /\ file' = IF state.some THEN save_outcome(file, state.state, io) ELSE file
    /\ last' = [cmd |-> cmd, overflowed |-> state.ovf,
                panicked |-> state.panic, pre |-> file, saved |-> state.some,
                io |-> io, trace |-> RunTrace(state)]
    /\ UNCHANGED <<build, procs>>

\* One run of main on a disk that takes every write.
Main(cmd, order) == Run(cmd, order, "ok")

\* The keys of the persisted purchases (none when there is no file).
FileKeys == DOMAIN file.state.purchases

Setup == \E ipc \in IPCArgs :
            Main(Command("Setup", "Infantery", NoAmmount, ipc), <<>>)

Status == \E order \in KeyOrders(FileKeys) :
            Main(Command("Status", "Infantery", NoAmmount, 0), order)

Purchase == \E troop \in Troops, a \in Ammounts :
            \E order \in KeyOrders(FileKeys \cup {troop}) :
                Main(Command("Purchase", troop, GivenAmmount(a), 0), order)

Remove == \E troop \in Troops :
            \/ \E a \in Ammounts :
                  Main(Command("Remove", troop, GivenAmmount(a), 0), <<>>)
            \/ Main(Command("Remove", troop, NoAmmount, 0), <<>>)

Commit == \E ipc \in IPCArgs, order \in KeyOrders(FileKeys) :
            Main(Command("Commit", "Infantery", NoAmmount, ipc), order)

NoCommand == Command("None", "Infantery", NoAmmount, 0)

\* The processes that may run main at the same time, and one not started.
Procs == {"p1", "p2"}

Idle == [cmd |-> NoCommand, pc |-> "idle", seen |-> NoFile, result |-> None]

Init ==
    /\ file = NoFile
    /\ build \in {"debug", "release"}
    /\ last = [cmd |-> NoCommand, overflowed |-> FALSE, panicked |-> FALSE,
               pre |-> NoFile, saved |-> FALSE, io |-> "ok", trace |-> <<>>]
    /\ nops = 0
    /\ procs = [p \in Procs |-> Idle]

TypeOK ==
    /\ file \in PersistedFile
    /\ build \in {"debug", "release"}
    /\ last \in LastRun
    /\ nops \in 0..MaxOps
    /\ procs \in [Procs -> ProcState]

Next == Setup \/ Status \/ Purchase \/ Remove \/ Commit

Spec == Init /\ [][Next]_vars

\* The runs on a disk where a save may fail at the open or at the write.
SetupDisk == \E ipc \in IPCArgs, io \in SaveOutcomes :
            Run(Command("Setup", "Infantery", NoAmmount, ipc), <<>>, io)

PurchaseDisk == \E troop \in Troops, a \in Ammounts, io \in SaveOutcomes :
            \E order \in KeyOrders(FileKeys \cup {troop}) :
                Run(Command("Purchase", troop, GivenAmmount(a), 0), order, io)

RemoveDisk == \E troop \in Troops, io \in SaveOutcomes :
            \/ \E a \in Ammounts :
                  Run(Command("Remove", troop, GivenAmmount(a), 0), <<>>, io)
            \/ Run(Command("Remove", troop, NoAmmount, 0), <<>>, io)

CommitDisk == \E ipc \in IPCArgs, order \in KeyOrders(FileKeys) :
            \E io \in SaveOutcomes :
                Run(Command("Commit", "Infantery", NoAmmount, ipc), order, io)

NextDisk == SetupDisk \/ Status \/ PurchaseDisk \/ RemoveDisk \/ CommitDisk

SpecDisk == Init /\ [][NextDisk]_vars

\* The runs in which Setup and Commit are given only arguments >= 0.
NonNegIPCArgs == {ipc \in IPCArgs : ipc >= 0}

SetupNonNeg == \E ipc \in NonNegIPCArgs :
            Main(Command("Setup", "Infantery", NoAmmount, ipc), <<>>)

CommitNonNeg == \E ipc \in NonNegIPCArgs, order \in KeyOrders(FileKeys) :
            Main(Command("Commit", "Infantery", NoAmmount, ipc), order)

NextNonNeg == SetupNonNeg \/ Status \/ Purchase \/ Remove \/ CommitNonNeg

SpecNonNeg == Init /\ [][NextNonNeg]_vars

---------------------------------------------------------------------------
(* Two processes running main at the same time on the same state.ron, with  *)
(* no lock: each loads, runs its handler on what it loaded, and saves by    *)
(* opening the file, which empties it, and then writing.                    *)

\* The commands the processes run, and the files they start from: no file,
\* the file after setup 20, the file after setup 20 and purchase infantery 1.
ConcCommands ==
    {Command("Setup", "Infantery", NoAmmount, 20),
     Command("Purchase", "Infantery", GivenAmmount(1), 0),
     Command("Purchase", "Battleship", GivenAmmount(1), 0),
     Command("Remove", "Infantery", NoAmmount, 0),
     Command("Commit", "Infantery", NoAmmount, 1)}

ConcStartFiles ==
    {NoFile,
     save(NoFile, GameState_new(20)),
     save(NoFile, [ipc |-> 20,
                   purchases |-> MapInsert(EmptyMap, "Infantery", 1)])}

\* The iteration orders the handler of cmd may meet on the state of f.
OrdersFor(f, cmd) ==
    CASE cmd.name = "Purchase" ->
            KeyOrders((DOMAIN f.state.purchases) \cup {cmd.troop})
      [] cmd.name \in {"Status", "Commit"} ->
            KeyOrders(DOMAIN f.state.purchases)
      [] OTHER -> {<<>>}

\* Mutant of loaded_by: the handler works on the file as it is now.
loaded_by_fresh(p) == file

\* The state a handler works on is the one its own load() returned.
loaded_by(p) == procs[p].seen

\* AppArgs::parse(): the process has its command; Setup does not load.
PStart(p) ==
    /\ procs[p].pc = "idle"
    /\ \E cmd \in ConcCommands :
          procs' = [procs EXCEPT ![p] =
                      [@ EXCEPT !.cmd = cmd,
                                !.pc = IF cmd.name = "Setup"
                                       THEN "transform" ELSE "load"]]
    /\ UNCHANGED <<file, build, last, nops>>

\* load() at the head of the handler.
PLoad(p) ==
    /\ procs[p].pc = "load"
    /\ procs' = [procs EXCEPT ![p] =
                  [@ EXCEPT !.pc = "transform", !.seen = file]]
    /\ UNCHANGED <<file, build, last, nops>>

\* The rest of the handler; main goes on to save when it returned Some.
PTransform(p) ==
    /\ procs[p].pc = "transform"
    /\ \E order \in OrdersFor(loaded_by(p), procs[p].cmd) :
          LET state == Dispatch(loaded_by(p), build, order, procs[p].cmd)
          IN procs' = [procs EXCEPT ![p] =
                         [@ EXCEPT !.pc = IF state.some THEN "open" ELSE "done",
                                   !.result = state]]
    /\ UNCHANGED <<file, build, last, nops>>

\* save: open(FILE) with truncate(true) empties the file.
PSaveOpen(p) ==
    /\ procs[p].pc = "open"
    /\ file' = NoFile
    /\ procs' = [procs EXCEPT ![p] = [@ EXCEPT !.pc = "write"]]
    /\ UNCHANGED <<build, last, nops>>

\* save: to_writer_pretty writes from the start of the file. When another
\* process has written since this one opened, the bytes of the two mix: the
\* file holds this state when it is the longer text, and is unreadable when
\* it is the shorter one.
PSaveWrite(p) ==
    /\ procs[p].pc = "write"
    /\ \/ file' = save(file, procs[p].result.state)
       \/ file.present /\ file' = NoFile
    /\ procs' = [procs EXCEPT ![p] = [@ EXCEPT !.pc = "done"]]
    /\ UNCHANGED <<build, last, nops>>

Start == \E p \in Procs : PStart(p)

Load == \E p \in Procs : PLoad(p)

Transform == \E p \in Procs : PTransform(p)

SaveOpen == \E p \in Procs : PSaveOpen(p)

SaveWrite == \E p \in Procs : PSaveWrite(p)

InitConc ==
    /\ file \in ConcStartFiles
    /\ build \in {"debug", "release"}
    /\ last = [cmd |-> NoCommand, overflowed |-> FALSE, panicked |-> FALSE,
               pre |-> NoFile, saved |-> FALSE, io |-> "ok", trace |-> <<>>]
    /\ nops = 0
    /\ procs = [p \in Procs |-> Idle]

NextConc == Start \/ Load \/ Transform \/ SaveOpen \/ SaveWrite

SpecConc == InitConc /\ [][NextConc]_vars

---------------------------------------------------------------------------
(* Vocabulary of the properties *)

Active(f) == f.present

Ran(name) == last.cmd.name = name

\* total_committed_cost in unbounded integers: the sum over pending of
\* quantity * cost(unit).
RECURSIVE SumCost(_, _)
SumCost(purchases, keys) ==
    IF keys = {} THEN 0
    ELSE LET t == CHOOSE k \in keys : TRUE
         IN purchases[t] * get_cost(t) + SumCost(purchases, keys \ {t})

total_committed_cost(state) == SumCost(state.purchases, DOMAIN state.purchases)

\* The file a run leaves behind when its handler returns r on file f.
FileAfter(f, r) == IF r.some THEN save(f, r.state) ELSE f

---------------------------------------------------------------------------
(* Properties *)

\* C1: in every persisted game state reachable by Setup, Purchase, Remove
\* and Commit with arbitrary arguments, every key in pending has a strictly
\* positive quantity.
C1_PendingPositive ==
    Active(file) =>
        \A t \in DOMAIN file.state.purchases : file.state.purchases[t] > 0

\* C2: a Commit on an active state with balance - total_committed_cost < 0
\* performs no save and leaves the persisted balance and pending unchanged.
C2_RejectionNonMutating ==
    (/\ Ran("Commit")
     /\ Active(last.pre)
     /\ last.pre.state.ipc - total_committed_cost(last.pre.state) < 0)
    => (~last.saved /\ file = last.pre)

\* C2, within the i32 range: the rejection is non-mutating in every run
\* whose arithmetic does not overflow.
C2_RejectionNonMutating_InRange ==
    ~last.overflowed => C2_RejectionNonMutating

\* C3: a Commit(new_balance) on an active state with
\* remaining = balance - total_committed_cost >= 0 persists a state whose
\* pending is empty and whose balance is remaining + new_balance.
C3_CommitArithmetic ==
    LET remaining == last.pre.state.ipc - total_committed_cost(last.pre.state)
    IN (Ran("Commit") /\ Active(last.pre) /\ remaining >= 0)
       => (/\ last.saved
           /\ Active(file)
           /\ file.state.purchases = EmptyMap
           /\ file.state.ipc = remaining + last.cmd.ipc)

\* C3, within the i32 range: the commit arithmetic is exact in every run
\* whose arithmetic does not overflow.
C3_CommitArithmetic_InRange ==
    ~last.overflowed => C3_CommitArithmetic

\* C4: Purchase(unit, q) on an active state persists a state in which
\* pending[unit] is the previous quantity of unit (0 if absent) plus q.
C4_PurchaseAccumulates ==
    (Ran("Purchase") /\ Active(last.pre))
    => (/\ last.saved
        /\ Active(file)
        /\ last.cmd.troop \in DOMAIN file.state.purchases
        /\ file.state.purchases[last.cmd.troop] =
              MapGetOr0(last.pre.state.purchases, last.cmd.troop)
                  + last.cmd.ammount.val)

\* C4, within the i32 range: the purchase accumulates in every run whose
\* arithmetic does not overflow.
C4_PurchaseAccumulates_InRange ==
    ~last.overflowed => C4_PurchaseAccumulates

\* C5: after Remove(unit, q) on an active state, unit is in pending exactly
\* when (previous quantity, 0 if absent) - q > 0, and then holds that
\* difference; it is never present with a zero or negative value.
C5_RemoveQuantity ==
    LET d == MapGetOr0(last.pre.state.purchases, last.cmd.troop)
                 - last.cmd.ammount.val
    IN (Ran("Remove") /\ last.cmd.ammount.given /\ Active(last.pre))
       => (/\ Active(file)
           /\ (last.cmd.troop \in DOMAIN file.state.purchases) <=> (d > 0)
           /\ d > 0 => file.state.purchases[last.cmd.troop] = d)

\* C5, within the i32 range: the removal is exact in every run whose
\* arithmetic does not overflow.
C5_RemoveQuantity_InRange ==
    ~last.overflowed => C5_RemoveQuantity

\* C6: Remove(unit, None) on an active state completes and persists a state
\* in which unit is absent from pending, whatever its previous quantity and
\* also when it was not in pending.
C6_RemoveAll ==
    (Ran("Remove") /\ ~last.cmd.ammount.given /\ Active(last.pre))
    => (/\ ~last.panicked
        /\ last.saved
        /\ Active(file)
        /\ last.cmd.troop \notin DOMAIN file.state.purchases)

\* C6 witness: Remove(unit, None) has run on a state holding unit.
C6_Witness ==
    /\ Ran("Remove") /\ ~last.cmd.ammount.given /\ Active(last.pre)
    /\ last.cmd.troop \in DOMAIN last.pre.state.purchases
    /\ last.pre.state.purchases[last.cmd.troop] > 0

\* C6, the absent key: Remove(unit, None) has run on a state without unit.
C6_WitnessAbsentKey ==
    /\ Ran("Remove") /\ ~last.cmd.ammount.given /\ Active(last.pre)
    /\ last.cmd.troop \notin DOMAIN last.pre.state.purchases

\* C7: with no persisted state, Status, Purchase, Remove and Commit perform
\* no save and leave the state uninitialized; only Setup takes
\* uninitialized to active.
C7_NoOpOnMissingState ==
    /\ (~Active(last.pre) /\ last.cmd.name \in {"Status", "Purchase", "Remove", "Commit"})
       => (~last.saved /\ ~Active(file))
    /\ (~Active(last.pre) /\ Active(file)) => Ran("Setup")

\* C7 witness: a Purchase has run with no persisted state.
C7_Witness == Ran("Purchase") /\ ~Active(last.pre) /\ ~Active(file)

\* C8: Setup(b) persists exactly {balance: b, pending: empty} from any prior
\* state, and a Setup(b) run on the result of Setup(b) changes nothing.
C8_SetupOverwrites ==
    /\ Ran("Setup")
       => (last.saved /\ file = save(last.pre, GameState_new(last.cmd.ipc)))
    /\ (Ran("Setup") /\ last.pre = save(NoFile, GameState_new(last.cmd.ipc)))
       => file = last.pre

\* C8 witness: Setup has run over an active state with pending purchases.
C8_Witness ==
    /\ Ran("Setup") /\ Active(last.pre)
    /\ last.pre.state.purchases # EmptyMap
    /\ last.pre.state.ipc # last.cmd.ipc

\* C8, run twice: Setup(b) has run on the state Setup(b) persists.
C8_WitnessTwice ==
    Ran("Setup") /\ last.pre = save(NoFile, GameState_new(last.cmd.ipc))

\* C9: Status performs no save and leaves the persisted balance and pending
\* unchanged, in the active and in the uninitialized state.
C9_StatusReadOnly == Ran("Status") => (~last.saved /\ file = last.pre)

\* C9 witness: Status has run on an active state with pending purchases.
C9_Witness ==
    Ran("Status") /\ Active(last.pre) /\ last.pre.state.purchases # EmptyMap

\* C10: for q > 0, the persisted state after Purchase(unit, -q) on an active
\* state equals the persisted state after Remove(unit, q) on the same state.
C10_NegativePurchaseIsRemove ==
    (/\ Ran("Purchase") /\ Active(last.pre)
     /\ last.cmd.ammount.val < 0 /\ InRange(-last.cmd.ammount.val))
    => file = FileAfter(last.pre,
                  remove_purchase(last.pre, build, last.cmd.troop,
                                  GivenAmmount(-last.cmd.ammount.val)))

\* C11: when two processes have each run one command to its end on the same
\* loaded state and both have saved, the file holds the result of one of
\* them alone, computed from the state it loaded: the update of the other
\* is not in it, and nothing either process did depended on the other.
C11_LastWriterWins ==
    (/\ \A p \in Procs : procs[p].pc = "done" /\ procs[p].result.some
     /\ \A p, q \in Procs : procs[p].seen = procs[q].seen
     /\ Active(file)) =>
        \E p \in Procs :
            \E order \in OrdersFor(procs[p].seen, procs[p].cmd) :
                file = FileAfter(procs[p].seen,
                                 Dispatch(procs[p].seen, build, order,
                                          procs[p].cmd))

\* The lost update: both processes loaded the same active state, each
\* purchased a different unit and saved, and the file holds the purchase of
\* one and not that of the other.
C11_Witness ==
    \E p, q \in Procs :
        /\ p # q
        /\ procs[p].pc = "done" /\ procs[q].pc = "done"
        /\ procs[p].result.some /\ procs[q].result.some
        /\ Active(procs[p].seen) /\ procs[p].seen = procs[q].seen
        /\ procs[p].cmd.name = "Purchase" /\ procs[q].cmd.name = "Purchase"
        /\ procs[p].cmd.troop # procs[q].cmd.troop
        /\ procs[p].cmd.troop \in DOMAIN procs[p].result.state.purchases
        /\ file = save(file, procs[q].result.state)
        /\ procs[p].cmd.troop \notin DOMAIN file.state.purchases

\* C12: once a state is persisted it stays present and loadable through
\* every operation, also one whose save fails; a failed save leaves the
\* state persisted before it.
C12_StateNeverDestroyed ==
    Active(last.pre) =>
        /\ Active(file)
        /\ (last.saved /\ last.io # "ok") => file = last.pre

\* C12 for the saves that do not fail at the write: the open failed, or
\* nothing failed.
C12_StateKept_UnlessWriteFails ==
    last.io # "write_failed" => C12_StateNeverDestroyed

\* A save that failed at the open and left the state persisted before it.
C12_WitnessOpenFailed ==
    /\ Active(last.pre) /\ last.saved /\ last.io = "open_failed"
    /\ file = last.pre

\* C13: no operation terminates abnormally: whatever 32-bit arguments Setup,
\* Purchase, Remove and Commit are given, the run does not panic and none of
\* its arithmetic leaves the 32-bit signed range.
C13_NoAbnormalTermination == ~last.panicked /\ ~last.overflowed

\* C14: in a run of Purchase, Remove or a successful Commit every line is
\* printed before the save, and the save is the last thing the run does.
C14_MessagesBeforeSave ==
    (Ran("Purchase") \/ Ran("Remove") \/ (Ran("Commit") /\ last.saved)) =>
        /\ \A i \in 1..Len(last.trace) :
              last.trace[i] = SaveEvent => i = Len(last.trace)
        /\ last.saved =>
              /\ Len(last.trace) >= 2
              /\ last.trace[Len(last.trace)] = SaveEvent

\* A Purchase that printed both its lines and was saved, and a Commit that
\* printed its three lines and was saved.
C14_Witness ==
    /\ Ran("Purchase") /\ last.saved
    /\ Len(last.trace) = 3
    /\ last.trace[1][1] = "added" /\ last.trace[2][1] = "remaining"

C14_WitnessCommit ==
    /\ Ran("Commit") /\ last.saved
    /\ Len(last.trace) = 4
    /\ last.trace[3][1] = "new_ipc_total"

\* C15: a Remove on an active state, with a quantity or without, with the
\* unit pending or not, saves.
C15_RemoveAlwaysSaves ==
    (Ran("Remove") /\ Active(last.pre)) => last.saved

\* C15 where no arithmetic of the run leaves the i32 range.
C15_RemoveAlwaysSaves_InRange ==
    ~last.overflowed => C15_RemoveAlwaysSaves

\* A Remove of a unit that was not pending, saved with the state as loaded.
C15_WitnessAbsentKey ==
    /\ Ran("Remove") /\ Active(last.pre) /\ last.saved
    /\ last.cmd.troop \notin DOMAIN last.pre.state.purchases
    /\ file = last.pre

\* The pending mapping after Purchase(unit, q), in unbounded integers.
PurchasesAfterAdd(state, troop, q) ==
    MapInsert(state.purchases, troop, MapGetOr0(state.purchases, troop) + q)

\* C16: a Purchase(unit, q) on an active state reports q * cost(unit) and
\* then balance - total_committed_cost over the mapping after the addition.
C16_PurchaseReporting ==
    (Ran("Purchase") /\ Active(last.pre)) =>
        LET troop == last.cmd.troop
            q == last.cmd.ammount.val
            updated == [ipc |-> last.pre.state.ipc,
                        purchases |-> PurchasesAfterAdd(last.pre.state, troop, q)]
        IN /\ Len(last.trace) >= 2
           /\ last.trace[1] = Msg("added", troop, q, q * get_cost(troop))
           /\ last.trace[2] =
                 Msg("remaining", "",
                     updated.ipc - total_committed_cost(updated), 0)

\* C16 where no arithmetic of the run leaves the i32 range.
C16_PurchaseReporting_InRange ==
    ~last.overflowed => C16_PurchaseReporting

\* A Purchase whose remaining value differs from the one over the mapping
\* as loaded.
C16_WitnessUpdatedMap ==
    /\ Ran("Purchase") /\ Active(last.pre) /\ ~last.overflowed
    /\ Len(last.trace) >= 2
    /\ last.trace[2][3] #
          last.pre.state.ipc - total_committed_cost(last.pre.state)

\* The entry of troop in a pending mapping: present with a quantity, or
\* absent.
Entry(purchases, troop) ==
    IF troop \in DOMAIN purchases THEN <<TRUE, purchases[troop]>>
    ELSE <<FALSE, 0>>

\* C17: a Purchase or Remove on an active state leaves the balance and the
\* entry of every unit other than the named one as they were; the balance of
\* an active state changes only through Setup and a successful Commit.
C17_Frame ==
    /\ ((Ran("Purchase") \/ Ran("Remove")) /\ Active(last.pre)) =>
          /\ Active(file)
          /\ file.state.ipc = last.pre.state.ipc
          /\ \A t \in Troops \ {last.cmd.troop} :
                Entry(file.state.purchases, t)
                    = Entry(last.pre.state.purchases, t)
    /\ (Active(last.pre) /\ file.state.ipc # last.pre.state.ipc) =>
          (Ran("Setup") \/ (Ran("Commit") /\ last.saved))

\* A saved Purchase that changed the file while another unit was pending.
C17_Witness ==
    /\ Ran("Purchase") /\ Active(last.pre) /\ last.saved
    /\ file # last.pre
    /\ \E t \in DOMAIN last.pre.state.purchases : t # last.cmd.troop

\* A saved Remove that changed the file while another unit was pending.
C17_WitnessRemove ==
    /\ Ran("Remove") /\ Active(last.pre) /\ last.saved
    /\ file # last.pre
    /\ \E t \in DOMAIN last.pre.state.purchases : t # last.cmd.troop

\* C18: when every Setup and every Commit is given an argument >= 0, the
\* balance of every persisted state is >= 0, whatever Purchase and Remove
\* are interleaved.
C18_NonNegativeBalance == Active(file) => file.state.ipc >= 0

\* C18 where no arithmetic of the run leaves the i32 range, the balance it
\* found being >= 0.
C18_NonNegativeBalance_InRange ==
    (/\ ~last.overflowed
     /\ Active(last.pre) => last.pre.state.ipc >= 0) =>
        C18_NonNegativeBalance

\* A Commit with a non-negative argument, saved, after pending purchases.
C18_WitnessCommit ==
    /\ Ran("Commit") /\ last.saved /\ ~last.overflowed
    /\ last.pre.state.purchases # EmptyMap
    /\ file.state.ipc >= 0

\* C19: a successful Commit(new_balance) leaves a balance of at most the old
\* balance + new_balance: what it deducts is never negative.
C19_CommitNeverRefunds ==
    (Ran("Commit") /\ Active(last.pre) /\ last.saved) =>
        file.state.ipc <= last.pre.state.ipc + last.cmd.ipc

\* C19 where every pending quantity the Commit found is positive and no
\* arithmetic of the run leaves the i32 range.
C19_CommitNeverRefunds_PositivePending ==
    (/\ ~last.overflowed
     /\ \A t \in DOMAIN last.pre.state.purchases :
           last.pre.state.purchases[t] > 0) => C19_CommitNeverRefunds

\* A successful Commit that deducted a positive cost.
C19_WitnessPays ==
    /\ Ran("Commit") /\ Active(last.pre) /\ last.saved
    /\ file.state.ipc < last.pre.state.ipc + last.cmd.ipc


============================================================================
